---- MODULE Spec2Model ----
(***************************************************************************)
(* Model of SelectImportSourceModal.vue (kolibri device plugin): the       *)
(* component's data fields, the two callbacks registered in created(),     *)
(* the two user handlers and the template bindings.                        *)
(***************************************************************************)
EXTENDS Naturals, Sequences, FiniteSets

\* Number of user-triggered operations (select, submit, cancel) explored.
MaxOps == 3

\* ContentSources members used by the template (lines 12, 20, 27).
KOLIBRI_STUDIO == "KOLIBRI_STUDIO"
PEER_KOLIBRI_SERVER == "PEER_KOLIBRI_SERVER"
LOCAL_DRIVE == "LOCAL_DRIVE"
ContentSources == {KOLIBRI_STUDIO, PEER_KOLIBRI_SERVER, LOCAL_DRIVE}

\* Values of data.status the status call may resolve with; the callback
\* only distinguishes 'offline' from everything else (line 62).
Statuses == {"online", "offline", "unknown"}

VARIABLES
  source,                 \* data().source
  initialDelay,           \* data().initialDelay
  formIsDisabled,         \* data().formIsDisabled
  kolibriStudioIsOffline, \* data().kolibriStudioIsOffline
  manageMode,             \* this.$attrs.manageMode
  timer,                  \* setTimeout of created(): "armed" or "fired"
  statusCall,             \* promise of getKolibriStudioStatus(): "pending", "resolved", "rejected"
  response,               \* data.status the promise resolved with, "none" before
  emitted,                \* sequence of this.$emit calls
  dispatched,             \* sequence of wizard store calls (action / mutation)
  lastOp,                 \* the callback or handler that ran last
  lastArg,                \* the argument it ran with ("none" when it takes none)
  nOps                    \* number of user-triggered operations so far

data == <<source, initialDelay, formIsDisabled, kolibriStudioIsOffline>>
effects == <<emitted, dispatched>>
vars == <<source, initialDelay, formIsDisabled, kolibriStudioIsOffline,
          manageMode, timer, statusCall, response, emitted, dispatched,
          lastOp, lastArg, nOps>>

\* ---------------------------------------------------------------- template

\* :submitDisabled="formIsDisabled"
submitDisabled == formIsDisabled

showLoadingMessage_NoDelay == formIsDisabled

showLoadingMessage_IgnoresForm == ~initialDelay

\* :showLoadingMessage="formIsDisabled && !initialDelay"
showLoadingMessage == formIsDisabled /\ ~initialDelay

\* ------------------------------------------------------------ outward calls

EmitSubmit(s) == [event |-> "submit", args |-> <<[source |-> s]>>]
EmitCancel == [event |-> "cancel", args |-> <<>>]
GoForward(s) == [name |-> "goForwardFromSelectImportSourceModal", args |-> <<s>>]
ResetState == [name |-> "RESET_STATE", args |-> <<>>]

\* ------------------------------------------------------------------- state

\* data() and the state right after created() has registered both callbacks
Init ==
  /\ source = KOLIBRI_STUDIO
  /\ initialDelay = TRUE
  /\ formIsDisabled = TRUE
  /\ kolibriStudioIsOffline = FALSE
  /\ manageMode \in BOOLEAN
  /\ timer = "armed"
  /\ statusCall = "pending"
  /\ response = "none"
  /\ emitted = <<>>
  /\ dispatched = <<>>
  /\ lastOp = "created"
  /\ lastArg = "none"
  /\ nOps = 0

\* ---------------------------------------------------------------- callbacks

timerCallback_EnablesForm ==
  /\ timer = "armed"
  /\ timer' = "fired"
  /\ initialDelay' = FALSE
  /\ formIsDisabled' = FALSE
  /\ lastOp' = "timerCallback"
  /\ lastArg' = "none"
  /\ UNCHANGED <<source, kolibriStudioIsOffline, manageMode,
                 statusCall, response, emitted, dispatched, nOps>>

\* setTimeout(() => { this.initialDelay = false; }, 1000)
timerCallback ==
  /\ timer = "armed"
  /\ timer' = "fired"
  /\ initialDelay' = FALSE
  /\ lastOp' = "timerCallback"
  /\ lastArg' = "none"
  /\ UNCHANGED <<source, formIsDisabled, kolibriStudioIsOffline, manageMode,
                 statusCall, response, emitted, dispatched, nOps>>

statusCallback_NoFallback(status) ==
  /\ statusCall = "pending"
  /\ statusCall' = "resolved"
  /\ response' = status
  /\ kolibriStudioIsOffline' = (status = "offline")
  /\ formIsDisabled' = FALSE
  /\ lastOp' = "statusCallback"
  /\ lastArg' = status
  /\ UNCHANGED <<source, initialDelay, manageMode, timer, emitted, dispatched, nOps>>

statusCallback_AlwaysFallback(status) ==
  /\ statusCall = "pending"
  /\ statusCall' = "resolved"
  /\ response' = status
  /\ source' = PEER_KOLIBRI_SERVER
  /\ kolibriStudioIsOffline' = TRUE
  /\ formIsDisabled' = FALSE
  /\ lastOp' = "statusCallback"
  /\ lastArg' = status
  /\ UNCHANGED <<initialDelay, manageMode, timer, emitted, dispatched, nOps>>

statusCallback_ReadsDelay(status) ==
  /\ statusCall = "pending"
  /\ statusCall' = "resolved"
  /\ response' = status
  /\ IF status = "offline" /\ initialDelay
       THEN /\ source' = PEER_KOLIBRI_SERVER
            /\ kolibriStudioIsOffline' = TRUE
       ELSE UNCHANGED <<source, kolibriStudioIsOffline>>
  /\ formIsDisabled' = FALSE
  /\ lastOp' = "statusCallback"
  /\ lastArg' = status
  /\ UNCHANGED <<initialDelay, manageMode, timer, emitted, dispatched, nOps>>

statusCallback_ClearsDelay(status) ==
  /\ statusCall = "pending"
  /\ statusCall' = "resolved"
  /\ response' = status
  /\ IF status = "offline"
       THEN /\ source' = PEER_KOLIBRI_SERVER
            /\ kolibriStudioIsOffline' = TRUE
       ELSE UNCHANGED <<source, kolibriStudioIsOffline>>
  /\ formIsDisabled' = FALSE
  /\ initialDelay' = FALSE
  /\ lastOp' = "statusCallback"
  /\ lastArg' = status
  /\ UNCHANGED <<manageMode, timer, emitted, dispatched, nOps>>

\* getKolibriStudioStatus().then(({ data }) => { ... }) with data.status = status
statusCallback(status) ==
  /\ statusCall = "pending"
  /\ statusCall' = "resolved"
  /\ response' = status
  /\ IF status = "offline"
       THEN /\ source' = PEER_KOLIBRI_SERVER
            /\ kolibriStudioIsOffline' = TRUE
       ELSE UNCHANGED <<source, kolibriStudioIsOffline>>
  /\ formIsDisabled' = FALSE
  /\ lastOp' = "statusCallback"
  /\ lastArg' = status
  /\ UNCHANGED <<initialDelay, manageMode, timer, emitted, dispatched, nOps>>

statusResolved == \E status \in Statuses : statusCallback(status)

statusRejected_EnablesForm ==
  /\ statusCall = "pending"
  /\ statusCall' = "rejected"
  /\ formIsDisabled' = FALSE
  /\ lastOp' = "statusRejected"
  /\ lastArg' = "none"
  /\ UNCHANGED <<source, initialDelay, kolibriStudioIsOffline, manageMode,
                 timer, response, emitted, dispatched, nOps>>

\* The promise is rejected: there is no catch and the then-callback is skipped.
statusRejected ==
  /\ statusCall = "pending"
  /\ statusCall' = "rejected"
  /\ lastOp' = "statusRejected"
  /\ lastArg' = "none"
  /\ UNCHANGED <<data, manageMode, timer, response, emitted, dispatched, nOps>>

\* ----------------------------------------------------------------- handlers

radioDisabled_OfflineOnly(choice) ==
  choice = KOLIBRI_STUDIO /\ kolibriStudioIsOffline

radioDisabled_IgnoresOffline(choice) == formIsDisabled

radioDisabled_PeerAlwaysEnabled(choice) ==
  IF choice = KOLIBRI_STUDIO
    THEN kolibriStudioIsOffline \/ formIsDisabled
    ELSE choice = LOCAL_DRIVE /\ formIsDisabled

\* :disabled bindings of the three KRadioButtons
radioDisabled(choice) ==
  IF choice = KOLIBRI_STUDIO
    THEN kolibriStudioIsOffline \/ formIsDisabled
    ELSE formIsDisabled

\* KRadioButton: a disabled radio button ignores the user's choice, an
\* enabled one passes it to v-model.
radioAccepts(choice) == ~radioDisabled(choice)

\* The user picks the radio button of value choice; v-model="source" assigns
\* the value when the button accepts it.
selectSource(choice) ==
  /\ nOps < MaxOps
  /\ source' = IF radioAccepts(choice) THEN choice ELSE source
  /\ lastOp' = "selectSource"
  /\ lastArg' = choice
  /\ nOps' = nOps + 1
  /\ UNCHANGED <<initialDelay, formIsDisabled, kolibriStudioIsOffline, manageMode,
                 timer, statusCall, response, emitted, dispatched>>

handleSubmit_Unguarded ==
  /\ nOps < MaxOps
  /\ IF manageMode
       THEN /\ emitted' = Append(emitted, EmitSubmit(source))
            /\ UNCHANGED dispatched
       ELSE /\ dispatched' = Append(dispatched, GoForward(source))
            /\ UNCHANGED emitted
  /\ lastOp' = "handleSubmit"
  /\ lastArg' = "none"
  /\ nOps' = nOps + 1
  /\ UNCHANGED <<data, manageMode, timer, statusCall, response>>

handleSubmit_ModeSwapped ==
  /\ nOps < MaxOps
  /\ IF ~formIsDisabled
       THEN IF ~manageMode
              THEN /\ emitted' = Append(emitted, EmitSubmit(source))
                   /\ UNCHANGED dispatched
              ELSE /\ dispatched' = Append(dispatched, GoForward(source))
                   /\ UNCHANGED emitted
       ELSE UNCHANGED <<emitted, dispatched>>
  /\ lastOp' = "handleSubmit"
  /\ lastArg' = "none"
  /\ nOps' = nOps + 1
  /\ UNCHANGED <<data, manageMode, timer, statusCall, response>>

handleSubmit_DisablesAfter ==
  /\ nOps < MaxOps
  /\ IF ~formIsDisabled
       THEN IF manageMode
              THEN /\ emitted' = Append(emitted, EmitSubmit(source))
                   /\ UNCHANGED dispatched
              ELSE /\ dispatched' = Append(dispatched, GoForward(source))
                   /\ UNCHANGED emitted
       ELSE UNCHANGED <<emitted, dispatched>>
  /\ formIsDisabled' = TRUE
  /\ lastOp' = "handleSubmit"
  /\ lastArg' = "none"
  /\ nOps' = nOps + 1
  /\ UNCHANGED <<source, initialDelay, kolibriStudioIsOffline,
                 manageMode, timer, statusCall, response>>

handleSubmit_DefaultSource ==
  /\ nOps < MaxOps
  /\ IF ~formIsDisabled
       THEN IF manageMode
              THEN /\ emitted' = Append(emitted, EmitSubmit(source))
                   /\ UNCHANGED dispatched
              ELSE /\ dispatched' = Append(dispatched, GoForward(KOLIBRI_STUDIO))
                   /\ UNCHANGED emitted
       ELSE UNCHANGED <<emitted, dispatched>>
  /\ lastOp' = "handleSubmit"
  /\ lastArg' = "none"
  /\ nOps' = nOps + 1
  /\ UNCHANGED <<data, manageMode, timer, statusCall, response>>

\* handleSubmit()
handleSubmit ==
  /\ nOps < MaxOps
  /\ IF ~formIsDisabled
       THEN IF manageMode
              THEN /\ emitted' = Append(emitted, EmitSubmit(source))
                   /\ UNCHANGED dispatched
              ELSE /\ dispatched' = Append(dispatched, GoForward(source))
                   /\ UNCHANGED emitted
       ELSE UNCHANGED <<emitted, dispatched>>
  /\ lastOp' = "handleSubmit"
  /\ lastArg' = "none"
  /\ nOps' = nOps + 1
  /\ UNCHANGED <<data, manageMode, timer, statusCall, response>>

handleCancel_AlwaysResets ==
  /\ nOps < MaxOps
  /\ IF manageMode
       THEN emitted' = Append(emitted, EmitCancel)
       ELSE UNCHANGED emitted
  /\ dispatched' = Append(dispatched, ResetState)
  /\ lastOp' = "handleCancel"
  /\ lastArg' = "none"
  /\ nOps' = nOps + 1
  /\ UNCHANGED <<data, manageMode, timer, statusCall, response>>

handleCancel_Guarded ==
  /\ nOps < MaxOps
  /\ IF ~formIsDisabled
       THEN IF manageMode
              THEN /\ emitted' = Append(emitted, EmitCancel)
                   /\ UNCHANGED dispatched
              ELSE /\ dispatched' = Append(dispatched, ResetState)
                   /\ UNCHANGED emitted
       ELSE UNCHANGED <<emitted, dispatched>>
  /\ lastOp' = "handleCancel"
  /\ lastArg' = "none"
  /\ nOps' = nOps + 1
  /\ UNCHANGED <<data, manageMode, timer, statusCall, response>>

\* handleCancel()
handleCancel ==
  /\ nOps < MaxOps
  /\ IF manageMode
       THEN /\ emitted' = Append(emitted, EmitCancel)
            /\ UNCHANGED dispatched
       ELSE /\ dispatched' = Append(dispatched, ResetState)
            /\ UNCHANGED emitted
  /\ lastOp' = "handleCancel"
  /\ lastArg' = "none"
  /\ nOps' = nOps + 1
  /\ UNCHANGED <<data, manageMode, timer, statusCall, response>>

userSelects == \E choice \in ContentSources : selectSource(choice)

Next ==
  \/ timerCallback
  \/ statusResolved
  \/ statusRejected
  \/ userSelects
  \/ handleSubmit
  \/ handleCancel

Spec == Init /\ [][Next]_vars

\* The event loop runs an expired timer's callback; the status call is a
\* network request and may stay pending forever.
FairSpec == Spec /\ WF_vars(timerCallback)

\* ------------------------------------------------------------------ claims

\* C1: a handleSubmit step taken while formIsDisabled is true emits no event
\* and makes no store call, whatever manageMode is; the component's data is
\* left alone too.
C1_DisabledSubmitHasNoEffect ==
  [][(formIsDisabled /\ nOps' = nOps + 1 /\ lastOp' = "handleSubmit")
       => (emitted' = emitted /\ dispatched' = dispatched /\ data' = data)]_vars

\* A submit issued right after creation, status call still pending.
C1_Witness ==
  /\ lastOp = "handleSubmit"
  /\ nOps = 1
  /\ statusCall = "pending"
  /\ formIsDisabled
  /\ emitted = <<>>
  /\ dispatched = <<>>

\* C2 as stated: in every execution formIsDisabled changes to false exactly
\* once, so once both callbacks of created() are done (timer fired, status
\* call settled) the form has been enabled.
C2_EnabledOnceSettled ==
  (timer = "fired" /\ statusCall # "pending") => ~formIsDisabled

\* C2 (amended): formIsDisabled is true after creation; it changes at most
\* once, from true to false, in exactly the step where the status call
\* resolves, and in no other step (timer, rejection, select, submit, cancel).
C2_EnabledOnlyByResolution ==
  /\ formIsDisabled = TRUE
  /\ [][(formIsDisabled' # formIsDisabled)
          => (/\ formIsDisabled
              /\ ~formIsDisabled'
              /\ statusCall = "pending"
              /\ statusCall' = "resolved")]_vars
  /\ [][(statusCall = "pending" /\ statusCall' = "resolved")
          => (formIsDisabled /\ ~formIsDisabled')]_vars
  /\ [][statusCall # "pending" => statusCall' = statusCall]_vars

\* The form was enabled by the resolution, then the timer and user handlers ran.
C2_Witness ==
  /\ statusCall = "resolved"
  /\ ~formIsDisabled
  /\ timer = "fired"
  /\ nOps >= 2

\* C3: the step in which the status call resolves with 'offline' ends with
\* source = PEER_KOLIBRI_SERVER and kolibriStudioIsOffline = TRUE.
C3_OfflineForcesPeer ==
  [][(statusCall = "pending" /\ statusCall' = "resolved" /\ response' = "offline")
       => (source' = PEER_KOLIBRI_SERVER /\ kolibriStudioIsOffline' = TRUE)]_vars

C3_Witness ==
  /\ lastOp = "statusCallback"
  /\ response = "offline"
  /\ source = PEER_KOLIBRI_SERVER
  /\ kolibriStudioIsOffline

\* C4: the step in which the status call resolves with a status other than
\* 'offline' keeps source and initialDelay, leaves kolibriStudioIsOffline
\* false, and changes formIsDisabled only.
C4_OnlineKeepsSource ==
  [][(statusCall = "pending" /\ statusCall' = "resolved" /\ response' # "offline")
       => (/\ source' = source
           /\ ~kolibriStudioIsOffline
           /\ ~kolibriStudioIsOffline'
           /\ initialDelay' = initialDelay
           /\ formIsDisabled
           /\ ~formIsDisabled')]_vars

C4_Witness ==
  /\ lastOp = "statusCallback"
  /\ response \in Statuses \ {"offline"}
  /\ source = KOLIBRI_STUDIO
  /\ ~kolibriStudioIsOffline
  /\ ~formIsDisabled

\* C5: a handleSubmit step with the form enabled and manageMode true appends
\* exactly one 'submit' event carrying { source: current source } and makes
\* no store call.
C5_ManageSubmitEmits ==
  [][(~formIsDisabled /\ manageMode /\ nOps' = nOps + 1 /\ lastOp' = "handleSubmit")
       => (/\ emitted' = Append(emitted, [event |-> "submit",
                                           args |-> <<[source |-> source]>>])
           /\ dispatched' = dispatched)]_vars

\* The user picked LOCAL_DRIVE and submitted in manage mode.
C5_Witness ==
  /\ lastOp = "handleSubmit"
  /\ manageMode
  /\ source = LOCAL_DRIVE
  /\ emitted = <<[event |-> "submit", args |-> <<[source |-> LOCAL_DRIVE]>>]>>
  /\ dispatched = <<>>

\* C6: a handleSubmit step with the form enabled and manageMode false calls
\* goForwardFromSelectImportSourceModal exactly once with the current source
\* and emits nothing.
C6_WizardSubmitDispatches ==
  [][(~formIsDisabled /\ ~manageMode /\ nOps' = nOps + 1 /\ lastOp' = "handleSubmit")
       => (/\ dispatched' = Append(dispatched,
                                    [name |-> "goForwardFromSelectImportSourceModal",
                                     args |-> <<source>>])
           /\ emitted' = emitted)]_vars

\* Status resolved 'offline', then submit in wizard mode: advance with the peer source.
C6_Witness ==
  /\ lastOp = "handleSubmit"
  /\ ~manageMode
  /\ response = "offline"
  /\ dispatched = <<[name |-> "goForwardFromSelectImportSourceModal",
                     args |-> <<PEER_KOLIBRI_SERVER>>]>>
  /\ emitted = <<>>

\* C7: every handleCancel step, form disabled or not, has exactly one outward
\* effect: a 'cancel' event without payload in manage mode, otherwise one
\* RESET_STATE mutation without arguments.
C7_CancelAlwaysActs ==
  [][(nOps' = nOps + 1 /\ lastOp' = "handleCancel")
       => IF manageMode
            THEN /\ emitted' = Append(emitted, [event |-> "cancel", args |-> <<>>])
                 /\ dispatched' = dispatched
            ELSE /\ dispatched' = Append(dispatched, [name |-> "RESET_STATE", args |-> <<>>])
                 /\ emitted' = emitted]_vars

\* Cancel while the form is still disabled, wizard mode.
C7_Witness ==
  /\ lastOp = "handleCancel"
  /\ formIsDisabled
  /\ ~manageMode
  /\ dispatched = <<[name |-> "RESET_STATE", args |-> <<>>]>>
  /\ emitted = <<>>

\* C8: initialDelay is true after creation, changes only in the timer-expiry
\* step (which sets it to false, whatever the state of the status call), and
\* the timer does expire.
C8_DelayClearedByTimerOnly ==
  /\ initialDelay = TRUE
  /\ [][(initialDelay' # initialDelay)
          => (initialDelay /\ ~initialDelay' /\ timer = "armed" /\ timer' = "fired")]_vars
  /\ [][(timer = "armed" /\ timer' = "fired") => (initialDelay /\ ~initialDelay')]_vars
  /\ [][timer = "fired" => timer' = "fired"]_vars
  /\ <>(~initialDelay)

\* The timer expired while the status call was still pending.
C8_Witness ==
  /\ lastOp = "timerCallback"
  /\ statusCall = "pending"
  /\ ~initialDelay

\* C9: as long as the status call has not resolved (pending or rejected) the
\* form is disabled and no submit effect has been produced; a rejected call
\* stays rejected; the timer still clears initialDelay and handleCancel still
\* produces its effect.
C9_UnresolvedStaysDisabled ==
  /\ [](statusCall # "resolved"
          => (/\ formIsDisabled
              /\ \A i \in 1..Len(emitted) : emitted[i].event # "submit"
              /\ \A i \in 1..Len(dispatched) :
                   dispatched[i].name # "goForwardFromSelectImportSourceModal"))
  /\ [][statusCall = "rejected" => statusCall' = "rejected"]_vars
  /\ [][(statusCall' # "resolved" /\ timer = "armed" /\ timer' = "fired")
          => ~initialDelay']_vars
  /\ [][(statusCall # "resolved" /\ nOps' = nOps + 1 /\ lastOp' = "handleCancel")
          => Len(emitted') + Len(dispatched') = Len(emitted) + Len(dispatched) + 1]_vars

\* Rejected call, timer expired, one submit (no effect) then one cancel (one effect).
C9_Witness ==
  /\ statusCall = "rejected"
  /\ formIsDisabled
  /\ timer = "fired"
  /\ ~initialDelay
  /\ nOps = 2
  /\ lastOp = "handleCancel"
  /\ Len(emitted) + Len(dispatched) = 1

\* C10: the submit control is disabled exactly while formIsDisabled; the
\* loading indicator is shown exactly when formIsDisabled and not
\* initialDelay: hidden while the timer is armed, shown once it fired with the
\* check pending, hidden in every state after the check resolved.
C10_PresentationFlags ==
  /\ submitDisabled = formIsDisabled
  /\ showLoadingMessage = (formIsDisabled /\ ~initialDelay)
  /\ timer = "armed" => ~showLoadingMessage
  /\ (timer = "fired" /\ statusCall = "pending") => showLoadingMessage
  /\ statusCall = "resolved" => (~showLoadingMessage /\ ~submitDisabled)
  /\ statusCall # "resolved" => submitDisabled

\* Delay over, check still pending: loading indicator on, submit disabled.
C10_Witness ==
  /\ timer = "fired"
  /\ statusCall = "pending"
  /\ showLoadingMessage
  /\ submitDisabled

\* C11: a select step changes source only to the chosen value and only when
\* that value's radio button is enabled: nothing is accepted while
\* formIsDisabled, KOLIBRI_STUDIO is not accepted while kolibriStudioIsOffline,
\* and every other choice made with the form enabled is accepted (so
\* PEER_KOLIBRI_SERVER and LOCAL_DRIVE stay selectable after an offline
\* resolution).
C11_SelectHonoursDisabled ==
  [][(nOps' = nOps + 1 /\ lastOp' = "selectSource")
       => (/\ source' \in {source, lastArg'}
           /\ formIsDisabled => source' = source
           /\ (lastArg' = KOLIBRI_STUDIO /\ kolibriStudioIsOffline) => source' = source
           /\ (~formIsDisabled /\ lastArg' \in {PEER_KOLIBRI_SERVER, LOCAL_DRIVE})
                => source' = lastArg'
           /\ (~formIsDisabled /\ ~kolibriStudioIsOffline) => source' = lastArg')]_vars

\* After an offline resolution LOCAL_DRIVE was picked, then the pick of
\* KOLIBRI_STUDIO was rejected.
C11_Witness ==
  /\ kolibriStudioIsOffline
  /\ lastOp = "selectSource"
  /\ lastArg = KOLIBRI_STUDIO
  /\ source = LOCAL_DRIVE

\* C12: the two integration styles never mix: with manageMode true no store
\* call is ever made, with manageMode false no event is ever emitted, and
\* manageMode does not change.
C12_ModesNeverMix ==
  /\ [](manageMode => dispatched = <<>>)
  /\ [](~manageMode => emitted = <<>>)
  /\ [][manageMode' = manageMode]_vars

\* Manage mode, a submit and a cancel both went out as events.
C12_Witness ==
  /\ manageMode
  /\ dispatched = <<>>
  /\ \E i \in 1..Len(emitted) : emitted[i].event = "submit"
  /\ \E i \in 1..Len(emitted) : emitted[i].event = "cancel"

\* C13: timer expiry and status resolution are independent: neither disables
\* the other (both orders can run), the timer step leaves the fields of the
\* status callback alone and conversely, and with no user action in between
\* the state after both is fixed by the resolved status alone, whichever ran
\* last.
C13_CallbacksCommute ==
  /\ [](timer = "armed" => ENABLED timerCallback)
  /\ [](statusCall = "pending" => \A st \in Statuses : ENABLED statusCallback(st))
  /\ [][(timer = "armed" /\ timer' = "fired")
          => UNCHANGED <<source, formIsDisabled, kolibriStudioIsOffline,
                         statusCall, response>>]_vars
  /\ [][(statusCall = "pending" /\ statusCall' = "resolved")
          => UNCHANGED <<initialDelay, timer>>]_vars
  /\ []((timer = "fired" /\ statusCall = "resolved" /\ nOps = 0)
          => (/\ initialDelay = FALSE
              /\ formIsDisabled = FALSE
              /\ kolibriStudioIsOffline = (response = "offline")
              /\ source = IF response = "offline"
                            THEN PEER_KOLIBRI_SERVER ELSE KOLIBRI_STUDIO
              /\ emitted = <<>>
              /\ dispatched = <<>>))

\* Timer first, then an offline resolution, no user action.
C13_Witness ==
  /\ nOps = 0
  /\ timer = "fired"
  /\ lastOp = "statusCallback"
  /\ response = "offline"
  /\ source = PEER_KOLIBRI_SERVER
  /\ ~initialDelay

\* C14: kolibriStudioIsOffline implies source # KOLIBRI_STUDIO, and every
\* source delivered by a submit (event payload or wizard-advance argument)
\* in such a state is not KOLIBRI_STUDIO.
C14_OfflineNeverStudio ==
  kolibriStudioIsOffline
    => (/\ source \in {PEER_KOLIBRI_SERVER, LOCAL_DRIVE}
        /\ \A i \in 1..Len(emitted) :
             emitted[i].event = "submit"
               => emitted[i].args[1].source \in {PEER_KOLIBRI_SERVER, LOCAL_DRIVE}
        /\ \A i \in 1..Len(dispatched) :
             dispatched[i].name = "goForwardFromSelectImportSourceModal"
               => dispatched[i].args[1] \in {PEER_KOLIBRI_SERVER, LOCAL_DRIVE})

\* Offline resolution, one earlier user operation, then a submit delivered the peer source.
C14_Witness ==
  /\ kolibriStudioIsOffline
  /\ lastOp = "handleSubmit"
  /\ nOps = 2
  /\ manageMode
  /\ emitted = <<[event |-> "submit", args |-> <<[source |-> PEER_KOLIBRI_SERVER]>>]>>

\* C15: while formIsDisabled is true, source is the default KOLIBRI_STUDIO
\* and kolibriStudioIsOffline is false.
C15_DisabledMeansDefault ==
  formIsDisabled => (source = KOLIBRI_STUDIO /\ ~kolibriStudioIsOffline)

\* The user tried LOCAL_DRIVE before the status call resolved: still the default.
C15_Witness ==
  /\ formIsDisabled
  /\ lastOp = "selectSource"
  /\ lastArg = LOCAL_DRIVE
  /\ source = KOLIBRI_STUDIO

\* C16: handleSubmit and handleCancel steps leave the four data fields
\* unchanged, and every handleSubmit step taken with the form enabled adds one
\* outward effect carrying the source of that moment, however many came before.
C16_HandlersKeepData ==
  /\ [][(nOps' = nOps + 1 /\ lastOp' \in {"handleSubmit", "handleCancel"})
          => data' = data]_vars
  /\ [][(nOps' = nOps + 1 /\ lastOp' = "handleSubmit" /\ ~formIsDisabled)
          => (/\ Len(emitted') + Len(dispatched') = Len(emitted) + Len(dispatched) + 1
              /\ manageMode => emitted'[Len(emitted')].args[1].source = source
              /\ ~manageMode => dispatched'[Len(dispatched')].args[1] = source)]_vars

\* Submit, pick LOCAL_DRIVE, submit again: two wizard-advance calls.
C16_Witness ==
  /\ lastOp = "handleSubmit"
  /\ dispatched = <<[name |-> "goForwardFromSelectImportSourceModal",
                     args |-> <<KOLIBRI_STUDIO>>],
                    [name |-> "goForwardFromSelectImportSourceModal",
                     args |-> <<LOCAL_DRIVE>>]>>

\* C17: the loading indicator is not shown while the timer is armed; from a
\* state where the status call resolved with the timer still armed it is
\* never shown again; and from any state where the status call has resolved
\* it is never shown again.
C17_NoLoadingAfterResolution ==
  /\ [](timer = "armed" => ~showLoadingMessage)
  /\ []((statusCall = "resolved" /\ timer = "armed") => [](~showLoadingMessage))
  /\ [](statusCall = "resolved" => [](~showLoadingMessage))

\* Status resolved first, the timer expired afterwards, indicator off.
C17_Witness ==
  /\ lastOp = "timerCallback"
  /\ statusCall = "resolved"
  /\ ~initialDelay
  /\ ~showLoadingMessage

====
